---------------------------- MODULE Spec2Model ----------------------------
(***************************************************************************)
(* Model of the cross-chain confirmation core of go-simplechain:           *)
(*                                                                         *)
(*   - the unconfirmed block-log ledger of SimpleSubscriber                *)
(*     (cross/trigger/simpletrigger/subscriber/unconfirmed.go):            *)
(*     add, insert, shift;                                                 *)
(*   - the signTx anchor tool (archive/signTx/main.go): handleTx,          *)
(*     MakeEvent, TakerEvent, parseCrossChainEvents, parseContractLogs.    *)
(*                                                                         *)
(* Go slices are modelled as sequences; Go index i is TLA+ index i+1.      *)
(* Block heights are naturals: uint64 wrap-around of index+depth is not    *)
(* modelled (it needs a block height within depth of 2^64).                *)
(***************************************************************************)
EXTENDS Integers, Sequences, FiniteSets, TLC

(***************************************************************************)
(* Bounds of the model.                                                    *)
(***************************************************************************)
\* Largest block height the callers pass to insert/shift/add.
MaxHeight == 2
\* Largest confirmation depth the subscriber is configured with.
MaxDepth == 1
\* Calls that would grow the ledger beyond this many entries are not made.
MaxLedger == 2

Heights == 0..MaxHeight
Depths == 0..MaxDepth

(***************************************************************************)
(* Program constants.                                                      *)
(***************************************************************************)
\* common.HashLength: the width of a topic and of a data word, in bytes.
HashLength == 32

\* The three event signatures the bridge contract emits (params.MakerTopic,
\* params.TakerTopic, params.MakerFinishTopic) and any other first topic.
MakerTopic == "MakerTopic"
TakerTopic == "TakerTopic"
MakerFinishTopic == "MakerFinishTopic"
OtherTopic == "OtherTopic"

\* Block hashes: two competing blocks can exist at every height.
Hashes == {"hA", "hB"}
\* Cross-transaction ids (topics[1] of a bridge log).
CtxIds == {"X", "Y"}

(***************************************************************************)
(* Logs.  A log (types.Log) is a record                                    *)
(*   address     "bridge" when v.Address is the subscriber's contract      *)
(*   topics      the sequence v.Topics                                     *)
(*   dataLen     len(v.Data); the data slices the programs read come from  *)
(*               make([]byte, n), so cap(v.Data) = len(v.Data)             *)
(*   count       the int64 read from the maker log's count word            *)
(*   txLookup    what GetTransactionByTxHash(v.TxHash) answers, relative   *)
(*               to the log: "match" (a transaction in the log's block),   *)
(*               "otherHash" or "otherNumber" (a transaction in another    *)
(*               block), "nil" (none)                                      *)
(*   blockNumber v.BlockNumber                                             *)
(*   blockHash   v.BlockHash                                               *)
(*   word0       the first data word                                       *)
(*   dest        the low 64 bits of the first data word, as the name of    *)
(*               the chain id they spell ("main", "sub" or "other")        *)
(*   destHigh    whether any higher bit of the first data word is set      *)
(* The count word is word 5 of the data for shift and word 4 for signTx's  *)
(* MakeEvent: count is the word the program at hand reads.                 *)
(***************************************************************************)
Log(addr, topics, dataLen, count, txLookup) ==
    [address |-> addr, topics |-> topics, dataLen |-> dataLen, count |-> count,
     txLookup |-> txLookup, blockNumber |-> 0, blockHash |-> "hA",
     word0 |-> "w0", dest |-> "other", destHigh |-> FALSE]

\* The logs of a block, stamped with the block they were emitted in.
RECURSIVE InBlock(_, _, _)
InBlock(logs, index, hash) ==
    IF logs = <<>> THEN <<>>
    ELSE <<[Head(logs) EXCEPT !.blockNumber = index, !.blockHash = hash]>>
         \o InBlock(Tail(logs), index, hash)

\* A maker log of the bridge contract with data of exactly 6 words, count 0.
MakerLog(x) == Log("bridge", <<MakerTopic, x, "from">>, HashLength * 6, 0, "match")
\* A taker log of the bridge contract with data of exactly 4 words.
TakerLog(x) == Log("bridge", <<TakerTopic, x, "to">>, HashLength * 4, 0, "match")
\* A finish log of the bridge contract.
FinishLog(x) == Log("bridge", <<MakerFinishTopic, x, "to">>, 0, 0, "match")


(***************************************************************************)
(* shift's decoding of one log (unconfirmed.go, lines 99-138).             *)
(***************************************************************************)
\* GetTransactionByTxHash(v.TxHash): (tx, blockHash, blockNumber).
GetTransactionByTxHash(v) ==
    [found |-> v.txLookup # "nil",
     blockHash |-> IF v.txLookup = "otherHash" THEN "hOther" ELSE v.blockHash,
     blockNumber |-> IF v.txLookup = "otherNumber" THEN v.blockNumber + 1
                     ELSE v.blockNumber]

\* Mutant of lines 100-101: the address of the log is not compared.
IsBridgeLogAnyAddress(v) ==
    LET r == GetTransactionByTxHash(v)
    IN  /\ r.found
        /\ r.blockHash = v.blockHash
        /\ r.blockNumber = v.blockNumber
        /\ Len(v.topics) >= 3

\* The guard of line 100-101: the log belongs to a transaction the chain
\* knows in the log's own block, comes from the bridge contract and has at
\* least three topics.
IsBridgeLog(v) ==
    LET r == GetTransactionByTxHash(v)
    IN  /\ r.found
        /\ r.blockHash = v.blockHash
        /\ r.blockNumber = v.blockNumber
        /\ v.address = "bridge"
        /\ Len(v.topics) >= 3

\* v.Data[lo:hi] panics unless 0 <= lo <= hi <= cap(v.Data).
SliceOk(v, lo, hi) == 0 <= lo /\ lo <= hi /\ hi <= v.dataLen

NoItem == [ctxId |-> "", at |-> 0, payloadLen |-> 0]

\* word[HashLength-AddressLength:], the low 20 bytes of a 32 byte word.
Low20(word) == [low20 |-> word]

\* Mutant of line 104: data of exactly 6 words is too short.
MakerDataLongEnoughStrict(v) == v.dataLen > HashLength * 6

\* Line 104: len(v.Data) >= common.HashLength*6.
MakerDataLongEnough(v) == v.dataLen >= HashLength * 6

\* What one log contributes: kind is "maker", "taker", "finish", "none"
\* (nothing extracted) or "panic" (the slice expression of line 121 panics).
DecodeLog(v, d) ==
    IF ~IsBridgeLog(v) THEN [kind |-> "none", item |-> NoItem]
    ELSE IF v.topics[1] = MakerTopic /\ MakerDataLongEnough(v)
    THEN IF SliceOk(v, HashLength * 6, HashLength * 6 + v.count)
         THEN [kind |-> "maker",
               item |-> [ctxId |-> v.topics[2], at |-> v.blockNumber,
                         from |-> Low20(v.topics[3]), to |-> Low20(v.word0),
                         payloadLen |-> v.count]]
         ELSE [kind |-> "panic", item |-> NoItem]
    ELSE IF v.topics[1] = TakerTopic /\ v.dataLen >= HashLength * 4
    THEN [kind |-> "taker",
          item |-> [ctxId |-> v.topics[2], at |-> v.blockNumber, payloadLen |-> 0]]
    ELSE IF v.topics[1] = MakerFinishTopic
    THEN [kind |-> "finish",
          item |-> [ctxId |-> v.topics[2], at |-> v.blockNumber + d,
                    payloadLen |-> 0]]
    ELSE [kind |-> "none", item |-> NoItem]

\* The loop over next.logs (lines 95-139): ctxs, rtxs, finishModifiers in
\* log order; panicked when a log's decoding panics (the loop is left at
\* that log).
NoExtract == [ctxs |-> <<>>, rtxs |-> <<>>, fins |-> <<>>, panicked |-> FALSE]

RECURSIVE ExtractFrom(_, _, _)
ExtractFrom(logs, d, acc) ==
    IF logs = <<>> THEN acc
    ELSE LET r == DecodeLog(Head(logs), d)
         IN  IF r.kind = "panic" THEN [acc EXCEPT !.panicked = TRUE]
             ELSE ExtractFrom(Tail(logs), d,
                    [ctxs |-> IF r.kind = "maker" THEN Append(acc.ctxs, r.item)
                              ELSE acc.ctxs,
                     rtxs |-> IF r.kind = "taker" THEN Append(acc.rtxs, r.item)
                              ELSE acc.rtxs,
                     fins |-> IF r.kind = "finish" THEN Append(acc.fins, r.item)
                              ELSE acc.fins,
                     panicked |-> FALSE])

ExtractLogs(logs, d) == ExtractFrom(logs, d, NoExtract)

(***************************************************************************)
(* Cross block events (cc.CrossBlockEvent).  currentEvent is a pointer:    *)
(* NilEvent is the nil pointer.                                            *)
(***************************************************************************)
NilEvent == [isNil |-> TRUE, Number |-> 0, Makers |-> <<>>, Takers |-> <<>>,
             Finishes |-> <<>>]
Event(n, ctxs, rtxs, fins) ==
    [isNil |-> FALSE, Number |-> n, Makers |-> ctxs, Takers |-> rtxs,
     Finishes |-> fins]

(***************************************************************************)
(* The canonical chain as shift sees it: GetHeaderByNumber(n) is nil or a  *)
(* header with that number and some hash.  hdr maps a height to the hash   *)
(* of the canonical header, or to NoHash when there is none to retrieve.   *)
(***************************************************************************)
NoHash == "none"
NilHeader == [isNil |-> TRUE, Number |-> 0, Hash |-> NoHash]
GetHeaderByNumber(hdr, n) ==
    IF hdr[n] = NoHash THEN NilHeader
    ELSE [isNil |-> FALSE, Number |-> n, Hash |-> hdr[n]]


(***************************************************************************)
(* State.                                                                  *)
(*   depth         t.depth, fixed at construction                          *)
(*   blocks        t.blocks, the ring, oldest entry first; <<>> is nil     *)
(*   currentEvent  the caller's currentEvent as the last call left it      *)
(*   sent          the events the last call passed to crossBlockSend       *)
(*   last          what the call in progress did: the operation, its       *)
(*                 height, the chain it saw (hdr), the ledger before it    *)
(*                 (pre) and after its shift (post), and for every entry   *)
(*                 its walk examined, the entry, the header the chain      *)
(*                 answered and the outcome                                *)
(***************************************************************************)
VARIABLES depth, blocks, currentEvent, sent, last

ledgerVars == <<depth, blocks, currentEvent, sent, last>>

\* An insertion run (insert N, ..., N+depth in order): scen holds its N, the next height to insert, the hash of every block
\* inserted so far, whether block N's canonical hash was changed, and all
\* events sent so far.
VARIABLES scen

NoScen == [N |-> 0, k |-> 0, hashes |-> <<>>, forked |-> FALSE,
           events |-> <<>>]

(***************************************************************************)
(* Concurrent callers (goroutines) of one subscriber.                      *)
(*   lock       t.lock: "free" or the thread holding it                    *)
(*   pc         where each thread is in its call                           *)
(*   loc        each thread's locals: the call's arguments, and next and   *)
(*              the header case of the loop iteration in progress          *)
(*   processed  the entries whose logs a shift iteration has processed,    *)
(*              in order                                                   *)
(*   added      the entries add has linked into the ring, in order         *)
(*   ncalls     the number of calls made so far                            *)
(***************************************************************************)
VARIABLES lock, pc, loc, processed, added, ncalls

concVars == <<lock, pc, loc, processed, added, ncalls>>

Threads == {"t1", "t2"}

NoEntry == [index |-> 0, hash |-> "none", logs |-> <<>>]
NoLocals == [op |-> "none", height |-> 0, hash |-> "hA", next |-> NoEntry,
             case |-> "none", panicked |-> FALSE]

(***************************************************************************)
(* The signTx tool (archive/signTx/main.go).  One run of main():           *)
(*   mode       "handleTx" or "parse" (the -p flag)                        *)
(*   tpc        the position of the run                                    *)
(*   onMain     handleTx: whether the transaction is on the main chain     *)
(*   hasData    handleTx: whether --data holds bytes (addCrossTxBytes)     *)
(*   receipt    handleTx: the logs of the receipt                          *)
(*   idx        handleTx: the next log of the receipt (Go index + 1)       *)
(*   effects    what the run has done to the outside, in order             *)
(***************************************************************************)
VARIABLES mode, tpc, onMain, hasData, receipt, idx, effects

handleVars == <<onMain, hasData, receipt, idx, effects>>

(***************************************************************************)
(* The tool's scan of the two chains (-p):                                 *)
(*   scanning     the chain parseContractLogs is scanning                  *)
(*   blk          the loop variable i of parseContractLogs                 *)
(*   head         the height of each chain (the endpoint's last block);    *)
(*                the configuration asks for the blocks 0..head            *)
(*   MakerEvents, TakerEvents   the maps of each chain                     *)
(*   finishes     the finishes of the scan under way                       *)
(*   mainFinish, subFinish      the finishes each scan returned            *)
(*   seen         history: the finish logs scanned, with their block       *)
(*   evicted      history: the keys the delete loops removed               *)
(*   requests     history: the calls of TransactionReceipt made for the    *)
(*                block scanned last, in order                             *)
(***************************************************************************)
VARIABLES scanning, blk, head, MakerEvents, TakerEvents, finishes, mainFinish,
          subFinish, seen, evicted, requests

parseVars == <<scanning, blk, head, MakerEvents, TakerEvents, finishes,
               mainFinish, subFinish, seen, evicted, requests>>

toolVars == <<mode, tpc, handleVars, parseVars>>

Chains == {"main", "sub"}

NoMaps == [c \in Chains |-> {}]

ParseOff ==
    /\ scanning = "main"
    /\ blk = 0
    /\ head = [c \in Chains |-> 0]
    /\ MakerEvents = NoMaps
    /\ TakerEvents = NoMaps
    /\ finishes = <<>>
    /\ mainFinish = <<>>
    /\ subFinish = <<>>
    /\ seen = {}
    /\ evicted = {}
    /\ requests = <<>>

\* The tool is not run.
ToolOff ==
    /\ mode = "off"
    /\ tpc = "off"
    /\ onMain = TRUE
    /\ hasData = FALSE
    /\ receipt = <<>>
    /\ idx = 0
    /\ effects = <<>>
    /\ ParseOff

ConcIdle ==
    /\ lock = "free"
    /\ pc = [t \in Threads |-> "idle"]
    /\ loc = [t \in Threads |-> NoLocals]
    /\ processed = <<>>
    /\ added = <<>>
    /\ ncalls = 0

\* An unconfirmedBlockLog.
Entry(index, hash, logs) ==
    [index |-> index, hash |-> hash, logs |-> InBlock(logs, index, hash)]

NoCall == [op |-> "none", height |-> 0, ce |-> NilEvent, pre |-> <<>>,
           post |-> <<>>, trace |-> <<>>, hdr |-> <<>>, panicked |-> FALSE]

\* The heights of the entries of a ledger.
IndexSet(bs) == {bs[i].index : i \in 1..Len(bs)}

(***************************************************************************)
(* shift (unconfirmed.go, lines 70-168).                                   *)
(***************************************************************************)
\* Mutants of line 87: the comparison off by one, either way.
NotConfirmedYetEarly(next, d, height) == next.index + d > height + 1
NotConfirmedYetLate(next, d, height) == next.index + d >= height

\* Line 87: the entry is too fresh to be confirmed at this height.
NotConfirmedYet(next, d, height) == next.index + d > height

\* Mutant of lines 159-166: nothing is unlinked.
DropNone(bs) == bs

\* Mutant of lines 159-166: the entry at the back is unlinked.
DropBack(bs) == IF Len(bs) = 1 THEN <<>> ELSE SubSeq(bs, 1, Len(bs) - 1)

\* Lines 159-166: drop the block out of the ring.
DropFront(bs) == IF Len(bs) = 1 THEN <<>> ELSE Tail(bs)

\* Mutant of line 144: any event under construction takes the entry.
MergesIntoAnyEvent(ce, confirmNumber) == ~ce.isNil

\* Line 144: the confirmed logs go into the caller's event.
MergesInto(ce, confirmNumber) == ~ce.isNil /\ ce.Number = confirmNumber

\* Mutant of line 149: & in place of |.
HasExtractedAll(ex) == Len(ex.ctxs) > 0 /\ Len(ex.rtxs) > 0 /\ Len(ex.fins) > 0

\* Line 149: len(ctxs)|len(rtxs)|len(finishModifiers) > 0.
HasExtracted(ex) == Len(ex.ctxs) > 0 \/ Len(ex.rtxs) > 0 \/ Len(ex.fins) > 0

\* Mutant of the header switch: the hash comparison of line 84 is missing.
HeaderCaseNoForkCheck(next, header, d, height) ==
    IF header.isNil THEN "nohdr"
    ELSE IF NotConfirmedYet(next, d, height) THEN "fresh"
    ELSE "confirm"

\* What the header switch of lines 80-90 decides for an entry.
HeaderCase(next, header, d, height) ==
    IF header.isNil THEN "nohdr"
    ELSE IF header.Hash # next.hash THEN "fork"
    ELSE IF NotConfirmedYet(next, d, height) THEN "fresh"
    ELSE "confirm"

\* Mutant of lines 81-82 and 159-166: an entry whose header cannot be
\* retrieved is kept and the walk stops.
DropsEntryKeepNoHeader(case) == case \in {"fork", "confirm"}

\* Whether the walk drops the entry after the switch (lines 159-166 follow
\* every case that does not break the loop).
DropsEntry(case) == case \in {"nohdr", "fork", "confirm"}

\* Mutant of line 141: the number is the height the shift was called with.
ConfirmedNumberFromHeight(header, d, height) == height

\* Line 141: confirmNumber, made from the header and the depth; the height
\* of the shift is not read.
ConfirmedNumber(header, d, height) == header.Number + d

Step(entry, header, outcome, ex, merged, emitted) ==
    [entry |-> entry, header |-> header, outcome |-> outcome, ex |-> ex,
     merged |-> merged, emitted |-> emitted]

\* One iteration of the loop on walk state w = [blocks, ce, sent, trace,
\* status]; status is "run", "break" (line 88) or "panic".
ShiftIter(w, height, d, hdr) ==
    LET next == Head(w.blocks)
        header == GetHeaderByNumber(hdr, next.index)
        case == HeaderCase(next, header, d, height)
        ex == ExtractLogs(next.logs, d)
        confirmNumber == ConfirmedNumber(header, d, height)
        merged == MergesInto(w.ce, confirmNumber)
        emitted == ~merged /\ HasExtracted(ex)
    IN  IF case = "fresh"
        THEN [w EXCEPT !.status = "break",
                       !.trace = Append(@, Step(next, header, case, NoExtract,
                                                FALSE, FALSE))]
        ELSE IF case # "confirm"
        THEN [w EXCEPT !.blocks = IF DropsEntry(case) THEN DropFront(@) ELSE @,
                       !.status = IF DropsEntry(case) THEN "run" ELSE "break",
                       !.trace = Append(@, Step(next, header, case, NoExtract,
                                                FALSE, FALSE))]
        ELSE IF ex.panicked
        THEN [w EXCEPT !.status = "panic",
                       !.trace = Append(@, Step(next, header, "panic", NoExtract,
                                                FALSE, FALSE))]
        ELSE [blocks |-> IF DropsEntry(case) THEN DropFront(w.blocks)
                         ELSE w.blocks,
              ce |-> IF merged
                     THEN [w.ce EXCEPT !.Makers = @ \o ex.ctxs,
                                       !.Takers = @ \o ex.rtxs,
                                       !.Finishes = @ \o ex.fins]
                     ELSE w.ce,
              sent |-> IF emitted
                       THEN Append(w.sent,
                                   Event(confirmNumber, ex.ctxs, ex.rtxs, ex.fins))
                       ELSE w.sent,
              trace |-> Append(w.trace, Step(next, header, case, ex, merged,
                                             emitted)),
              status |-> IF DropsEntry(case) THEN "run" ELSE "break"]

\* The loop: for t.blocks != nil { ... }.
RECURSIVE ShiftWalk(_, _, _, _)
ShiftWalk(w, height, d, hdr) ==
    IF w.status # "run" \/ w.blocks = <<>> THEN w
    ELSE ShiftWalk(ShiftIter(w, height, d, hdr), height, d, hdr)

\* shift(height, currentEvent) on ledger bs, under the lock.
ShiftResult(bs, height, ce, d, hdr) ==
    ShiftWalk([blocks |-> bs, ce |-> ce, sent |-> <<>>, trace |-> <<>>,
               status |-> "run"], height, d, hdr)

\* add (lines 39-56): the new item becomes the ring or is linked at its end.
AddResult(bs, index, hash, logs) ==
    IF bs = <<>> THEN <<Entry(index, hash, logs)>>
    ELSE Append(bs, Entry(index, hash, logs))


(***************************************************************************)
(* The calls of a single caller, each taken as a whole (the lock is        *)
(* uncontended).  hdr is the canonical chain during the call: any hash, or *)
(* no header, at each height the ledger holds.  A call leaves what it did  *)
(* in last, sent and currentEvent; Return hands these to the caller, who   *)
(* then makes its next call.                                               *)
(***************************************************************************)
ChainViews(bs) == [IndexSet(bs) -> Hashes \cup {NoHash}]

Idle == last.op = "none"

\* insert (lines 59-65): shift(index, currentEvent), then add.  A panic in
\* shift unwinds insert: nothing is added.
Insert(index, hash, logs, ce, hdr) ==
    LET w == ShiftResult(blocks, index, ce, depth, hdr)
    IN  /\ Idle
        /\ Len(w.blocks) < MaxLedger
        /\ blocks' = IF w.status = "panic" THEN w.blocks
                     ELSE AddResult(w.blocks, index, hash, logs)
        /\ currentEvent' = w.ce
        /\ sent' = w.sent
        /\ last' = [op |-> "insert", height |-> index, ce |-> ce, pre |-> blocks,
                    post |-> w.blocks, trace |-> w.trace, hdr |-> hdr,
                    panicked |-> w.status = "panic"]
        /\ UNCHANGED depth

\* shift called on its own.
Shift(height, ce, hdr) ==
    LET w == ShiftResult(blocks, height, ce, depth, hdr)
    IN  /\ Idle
        /\ blocks' = w.blocks
        /\ currentEvent' = w.ce
        /\ sent' = w.sent
        /\ last' = [op |-> "shift", height |-> height, ce |-> ce, pre |-> blocks,
                    post |-> w.blocks, trace |-> w.trace, hdr |-> hdr,
                    panicked |-> w.status = "panic"]
        /\ UNCHANGED depth

\* add called on its own.
Add(index, hash, logs) ==
    /\ Idle
    /\ Len(blocks) < MaxLedger
    /\ blocks' = AddResult(blocks, index, hash, logs)
    /\ last' = [op |-> "add", height |-> index, ce |-> NilEvent, pre |-> blocks,
                post |-> blocks, trace |-> <<>>, hdr |-> <<>>,
                panicked |-> FALSE]
    /\ UNCHANGED <<depth, sent, currentEvent>>

\* The call returns; the events sent have gone to the feed's subscribers.
Return ==
    /\ ~Idle
    /\ last' = NoCall
    /\ sent' = <<>>
    /\ currentEvent' = NilEvent
    /\ UNCHANGED <<depth, blocks>>

vars == <<ledgerVars, scen, concVars, toolVars>>

Init ==
    /\ depth \in Depths
    /\ blocks = <<>>
    /\ currentEvent = NilEvent
    /\ sent = <<>>
    /\ last = NoCall
    /\ scen = NoScen
    /\ ConcIdle
    /\ ToolOff

\* The blocks the walk specification inserts: at every height block hA
\* carries a maker log and block hB a finish and a taker log.
LogsOf(hash) == IF hash = "hA" THEN <<MakerLog("X")>>
                ELSE <<FinishLog("X"), TakerLog("Y")>>

\* The currentEvent a caller passes with a block of the given height: nil,
\* or the event of that height with nothing confirmed in it yet.
EventArgs(height) == {NilEvent, Event(height, <<>>, <<>>, <<>>)}

\* The variables the ledger's calls leave alone.
notLedgerVars == <<scen, concVars, toolVars>>

Next ==
    \/ \E index \in Heights, hash \in Hashes, hdr \in ChainViews(blocks) :
          \E ce \in EventArgs(index) :
             Insert(index, hash, LogsOf(hash), ce, hdr)
                /\ UNCHANGED notLedgerVars
    \/ \E height \in Heights, hdr \in ChainViews(blocks) :
          \E ce \in EventArgs(height) :
             Shift(height, ce, hdr) /\ UNCHANGED notLedgerVars
    \/ \E index \in Heights, hash \in Hashes :
          Add(index, hash, LogsOf(hash)) /\ UNCHANGED notLedgerVars
    \/ Return /\ UNCHANGED notLedgerVars

Spec == Init /\ [][Next]_vars


(***************************************************************************)
(* Properties of the ledger walk, checked under Spec.                      *)
(***************************************************************************)
Steps == 1..Len(last.trace)
ShiftCall == last.op \in {"insert", "shift"}

\* The walk examines the ledger from its front: step i is about entry i of
\* the ledger before the call, and what shift leaves is a suffix of it.
LeftByShift(i) == Len(last.post) > Len(last.pre) - i
PostIsSuffix ==
    /\ Len(last.post) <= Len(last.pre)
    /\ last.post = SubSeq(last.pre, Len(last.pre) - Len(last.post) + 1,
                          Len(last.pre))
    /\ \A i \in Steps : last.trace[i].entry = last.pre[i]

\* The canonical header at the entry's height has the entry's hash.
Canonical(e) == last.hdr[e.index] = e.hash

\* The step ran the log loop of the entry (to its end, or to a panic).
LogsProcessed(s) == s.outcome \in {"confirm", "panic"}

\* C1: the logs of an entry are extracted, and events sent or merged, only
\* inside a shift (on its own or within insert) whose height is at least
\* the entry's index plus depth and that sees the canonical header at the
\* entry's index with the entry's hash; add extracts and sends nothing.
ConfirmedOnlyAtDepthOnCanonical ==
    /\ \A i \in Steps :
          LET s == last.trace[i]
          IN  (LogsProcessed(s) \/ s.merged \/ s.emitted \/ s.ex # NoExtract)
                 => /\ ShiftCall
                    /\ last.height >= s.entry.index + depth
                    /\ Canonical(s.entry)
    /\ \A k \in 1..Len(sent) :
          \E i \in Steps :
             /\ last.trace[i].emitted
             /\ last.trace[i].outcome = "confirm"
             /\ sent[k].Number = last.trace[i].entry.index + depth
             /\ sent[k].Makers = last.trace[i].ex.ctxs
    /\ (currentEvent.Makers # <<>> \/ currentEvent.Takers # <<>>
          \/ currentEvent.Finishes # <<>>)
          => \E i \in Steps : last.trace[i].merged
                                 /\ last.trace[i].outcome = "confirm"
    /\ ~ShiftCall => (last.trace = <<>> /\ sent = <<>>)

\* A shift confirmed an entry and sent its event, and stopped at a younger
\* entry it left in the ledger.
ConfirmedAtDepthReached ==
    /\ ShiftCall
    /\ sent # <<>>
    /\ \E i \in Steps : last.trace[i].outcome = "confirm"
    /\ \E i \in Steps : last.trace[i].outcome = "fresh"

\* C2: an entry whose canonical header cannot be retrieved is left in the
\* ledger by shift.
NilHeaderKeepsEntry ==
    \A i \in Steps :
       (ShiftCall /\ last.hdr[last.trace[i].entry.index] = NoHash)
          => LeftByShift(i)

\* C4: an entry that shift examines while the canonical header at its
\* index has another hash is removed from the ledger, none of its logs is
\* processed and no event is sent or merged for it.
ForkDroppedUnprocessed ==
    /\ PostIsSuffix
    /\ \A i \in Steps :
          LET s == last.trace[i]
          IN  (last.hdr[s.entry.index] \notin {NoHash, s.entry.hash})
                 => /\ ~LeftByShift(i)
                    /\ ~LogsProcessed(s)
                    /\ s.ex = NoExtract
                    /\ ~s.merged /\ ~s.emitted
    /\ \A k \in 1..Len(sent) :
          \E i \in Steps : /\ Canonical(last.trace[i].entry)
                           /\ sent[k].Makers = last.trace[i].ex.ctxs
                           /\ sent[k].Takers = last.trace[i].ex.rtxs
                           /\ sent[k].Finishes = last.trace[i].ex.fins

\* A shift dropped a side-fork entry that was old enough and carried bridge
\* logs, and went on to the next entry.
ForkDropReached ==
    /\ ShiftCall
    /\ \E i \in Steps :
          /\ last.trace[i].outcome = "fork"
          /\ last.trace[i].entry.index + depth <= last.height
          /\ HasExtracted(ExtractLogs(last.trace[i].entry.logs, depth))
          /\ i < Len(last.trace)

\* An entry that is old enough at the call's height and canonical.
Eligible(e) == e.index + depth <= last.height /\ Canonical(e)

\* C5 as stated: when insert or shift returns, no entry that was in the
\* ledger and is old enough and canonical is left in it.
NoEligibleLeft ==
    (ShiftCall /\ ~last.panicked)
       => \A j \in 1..Len(last.post) : ~Eligible(last.post[j])

\* The entries of a ledger are in ascending order of index.
Ascending(bs) == \A i, j \in 1..Len(bs) : i < j => bs[i].index <= bs[j].index

\* C5: when insert or shift returns, every old enough canonical entry that
\* was ahead of the first canonical entry not yet old enough has had its
\* logs processed and is removed, and that first younger entry, if any, is
\* the front of what is left; so nothing old enough and canonical is left
\* of a ledger whose entries were in ascending order of index.
NoEligibleLeftAheadOfYounger ==
    (ShiftCall /\ ~last.panicked)
       => /\ PostIsSuffix
          /\ \A i \in Steps :
                Eligible(last.trace[i].entry)
                   => last.trace[i].outcome = "confirm" /\ ~LeftByShift(i)
          /\ last.post # <<>>
                => /\ Canonical(last.post[1])
                   /\ last.post[1].index + depth > last.height
                   /\ Len(last.trace) = Len(last.pre) - Len(last.post) + 1
          /\ Ascending(last.pre)
                => \A j \in 1..Len(last.post) : ~Eligible(last.post[j])

\* A shift of an ascending ledger confirmed an entry and left a younger
\* one.
AscendingShiftReached ==
    /\ ShiftCall /\ ~last.panicked /\ Ascending(last.pre)
    /\ Len(last.pre) >= 2
    /\ Len(last.post) >= 1
    /\ \E i \in Steps : last.trace[i].outcome = "confirm"
                         /\ Eligible(last.trace[i].entry)


(***************************************************************************)
(* An insertion run: from an empty ledger,    insert(N), ..., insert(N +    *)
(* depth) in order with no currentEvent.  Block N carries one qualifying   *)
(* maker log, the other blocks no bridge log.  The chain answers every     *)
(* height with the hash inserted, except that block N's canonical hash may *)
(* be changed (once, for good) at any time before insert(N + depth).       *)
(***************************************************************************)
\* Maker logs that shift decodes: the minimum data, or a 4 byte payload.
QualifyingMakers ==
    {MakerLog(x) : x \in CtxIds}
       \cup {Log("bridge", <<MakerTopic, "X", "from">>, HashLength * 6 + 4, 4,
                 "match")}

\* Log lists without any bridge log: none, a log of another contract, a
\* maker log with two topics, a maker log one byte short.
NonBridgeLogs ==
    {<<>>,
     <<Log("other", <<MakerTopic, "X", "from">>, HashLength * 6, 0, "match")>>,
     <<Log("bridge", <<MakerTopic, "X">>, HashLength * 6, 0, "match")>>,
     <<Log("bridge", <<MakerTopic, "X", "from">>, HashLength * 6 - 1, 0,
           "match")>>}

OtherHash(h) == IF h = "hA" THEN "hB" ELSE "hA"

\* The chain the scenario's calls see, over the heights of the ledger.
ScenView(bs) ==
    [i \in IndexSet(bs) |->
        IF scen.forked /\ i = scen.N THEN OtherHash(scen.hashes[1])
        ELSE scen.hashes[i - scen.N + 1]]

ScenInit ==
    /\ depth \in Depths
    /\ blocks = <<>>
    /\ currentEvent = NilEvent
    /\ sent = <<>>
    /\ last = NoCall
    /\ \E n \in Heights :
          /\ n + depth <= MaxHeight
          /\ scen = [N |-> n, k |-> n, hashes |-> <<>>, forked |-> FALSE,
                     events |-> <<>>]
    /\ ConcIdle
    /\ ToolOff

\* insert(k, hash, logs, nil) for the next height k.
ScenInsert ==
    /\ scen.k <= scen.N + depth
    /\ \E hash \in Hashes,
          logs \in IF scen.k = scen.N THEN {<<m>> : m \in QualifyingMakers}
                   ELSE NonBridgeLogs :
          /\ Insert(scen.k, hash, logs, NilEvent, ScenView(blocks))
          /\ scen' = [scen EXCEPT !.k = @ + 1,
                                  !.hashes = Append(@, hash),
                                  !.events = @ \o sent']
          /\ UNCHANGED <<concVars, toolVars>>

\* The canonical chain replaces block N before it is confirmed.
ScenFork ==
    /\ ~scen.forked
    /\ scen.N < scen.k /\ scen.k <= scen.N + depth
    /\ scen' = [scen EXCEPT !.forked = TRUE]
    /\ UNCHANGED <<ledgerVars, concVars, toolVars>>

ScenReturn == Return /\ UNCHANGED <<scen, concVars, toolVars>>

ScenNext == ScenInsert \/ ScenFork \/ ScenReturn

SpecSeq == ScenInit /\ [][ScenNext]_vars

\* insert(N + depth) has returned.
ScenDone == scen.k = scen.N + depth + 1

\* C3 as stated: for every depth, when insert(N + depth) has returned and no
\* canonical hash has changed, exactly one event has been sent in total:
\* its number is N + depth and it holds the maker of block N.
OneEventAfterDepthInserts ==
    (ScenDone /\ ~scen.forked)
       => /\ Len(scen.events) = 1
          /\ scen.events[1].Number = scen.N + depth
          /\ Len(scen.events[1].Makers) = 1
          /\ scen.events[1].Makers[1].ctxId \in CtxIds
          /\ scen.events[1].Takers = <<>> /\ scen.events[1].Finishes = <<>>

\* C3: for every depth of at least 1 no event is sent before
\* insert(N + depth), and when it has returned exactly one event has been
\* sent, with number N + depth and the maker of block N; at depth 0
\* insert(N) shifts before it adds, so it sends no event and leaves block N
\* in the ledger for the next shift.
OneEventAfterDepthInsertsDepthPos ==
    ~scen.forked
       => /\ ~ScenDone => scen.events = <<>>
          /\ (ScenDone /\ depth >= 1)
               => /\ Len(scen.events) = 1
                  /\ scen.events[1].Number = scen.N + depth
                  /\ Len(scen.events[1].Makers) = 1
                  /\ scen.events[1].Makers[1].ctxId \in CtxIds
                  /\ scen.events[1].Makers[1].at = scen.N
                  /\ scen.events[1].Takers = <<>>
                  /\ scen.events[1].Finishes = <<>>
          /\ (ScenDone /\ depth = 0)
               => /\ scen.events = <<>>
                  /\ Len(blocks) = 1 /\ blocks[1].index = scen.N

\* The run has come to its end at a depth of at least 1 and sent its event.
DepthInsertsDone ==
    /\ depth >= 1 /\ ScenDone /\ ~scen.forked
    /\ Len(scen.events) = 1
    /\ last.op = "insert" /\ last.height = scen.N + depth

\* The second half of C4: with block N's canonical hash changed before its
\* confirmation, the insertion run sends no event.
ForkedTestSendsNothing == scen.forked => scen.events = <<>>


(***************************************************************************)
(* A run of consecutive inserts: from an empty ledger, insert(N),          *)
(* insert(N + 1), ... with no currentEvent, every call after the one       *)
(* before has returned.  During each call the chain answers any hash, or   *)
(* no header, at every height the ledger holds.                            *)
(***************************************************************************)
\* The depths and the last height of a run.
MaxRunDepth == 2
MaxRunHeight == 3

RunInit ==
    /\ depth \in 0..MaxRunDepth
    /\ blocks = <<>>
    /\ currentEvent = NilEvent
    /\ sent = <<>>
    /\ last = NoCall
    /\ \E n \in 0..MaxRunHeight :
          scen = [N |-> n, k |-> n, hashes |-> <<>>, forked |-> FALSE,
                  events |-> <<>>]
    /\ ConcIdle
    /\ ToolOff

\* insert(k, hash, logs, nil) for the next height k.
RunInsert ==
    /\ scen.k <= MaxRunHeight
    /\ \E hash \in Hashes, hdr \in ChainViews(blocks) :
          /\ Insert(scen.k, hash, LogsOf(hash), NilEvent, hdr)
          /\ scen' = [scen EXCEPT !.k = @ + 1]
          /\ UNCHANGED <<concVars, toolVars>>

RunReturn == Return /\ UNCHANGED <<scen, concVars, toolVars>>

RunNext == RunInsert \/ RunReturn

SpecRun == RunInit /\ [][RunNext]_vars

Larger(a, b) == IF a >= b THEN a ELSE b

\* C19: in a run of consecutive inserts the ledger never holds more than
\* max(depth, 1) entries once an insert has added its block, whatever the
\* chain answered; its entries are the blocks inserted last, in order.
LedgerWithinDepth ==
    /\ Len(blocks) <= Larger(depth, 1)
    /\ \A i \in 1..Len(blocks) : blocks[i].index = scen.k - 1 - Len(blocks) + i

\* At depth 2 an insert found no header for the oldest entry, dropped it,
\* and left the ledger with two entries.
LedgerFullAfterNoHeader ==
    /\ depth = 2 /\ Len(blocks) = 2
    /\ last.op = "insert"
    /\ \E i \in Steps : last.trace[i].outcome = "nohdr"


(***************************************************************************)
(* Concurrent calls.  Every thread runs insert, shift or add step by step: *)
(* t.lock.Lock(), the loop of shift one iteration at a time (the read of   *)
(* the front entry and of its header, then the processing of its logs and  *)
(* the drop), the link of add, and the deferred t.lock.Unlock().  The      *)
(* calls pass no currentEvent and add blocks of hash hA.  The chain        *)
(* answers each header lookup with any hash or none.                       *)
(***************************************************************************)
\* Calls made before the model stops making new ones.
MaxCalls == 3

\* Mutant of sync.Mutex.Lock: it does not wait.
LockFreeAlways == TRUE

\* t.lock.Lock() returns only when no one holds the lock.
LockFree == lock = "free"

Call(t, op, height, hash) ==
    /\ pc[t] = "idle"
    /\ ncalls < MaxCalls
    /\ ncalls' = ncalls + 1
    /\ loc' = [loc EXCEPT ![t] = [NoLocals EXCEPT !.op = op, !.height = height,
                                                  !.hash = hash]]
    /\ pc' = [pc EXCEPT ![t] = IF op = "add" THEN "add_lock" ELSE "shift_lock"]
    /\ UNCHANGED <<lock, processed, added, ledgerVars, scen, toolVars>>

\* Lines 48 and 71: t.lock.Lock().
Lock(t) ==
    /\ pc[t] \in {"shift_lock", "add_lock"}
    /\ LockFree
    /\ lock' = t
    /\ pc' = [pc EXCEPT ![t] = IF pc[t] = "add_lock" THEN "add_link"
                               ELSE "shift_loop"]
    /\ UNCHANGED <<loc, processed, added, ncalls, ledgerVars, scen, toolVars>>

\* Lines 75-90: the loop test, the read of the front entry and of the
\* canonical header at its index (answer), and the header switch.
ShiftRead(t, answer) ==
    /\ pc[t] = "shift_loop"
    /\ IF blocks = <<>>
       THEN /\ pc' = [pc EXCEPT ![t] = "shift_unlock"]
            /\ UNCHANGED loc
       ELSE LET next == Head(blocks)
                header == GetHeaderByNumber([n \in {next.index} |-> answer],
                                            next.index)
                case == HeaderCase(next, header, depth, loc[t].height)
            IN  /\ loc' = [loc EXCEPT ![t].next = next, ![t].case = case]
                /\ pc' = [pc EXCEPT ![t] = IF case = "fresh" THEN "shift_unlock"
                                           ELSE "shift_body"]
    /\ UNCHANGED <<lock, processed, added, ncalls, ledgerVars, scen, toolVars>>

\* Lines 91-166: the logs of next are processed when the entry is confirmed
\* and the front of the ring is dropped.  A panic of the log loop leaves
\* the entry and unwinds to the deferred unlock; a drop from a nil ring
\* (which needs another thread to have emptied it meanwhile) is a nil
\* dereference.
ShiftBody(t) ==
    /\ pc[t] = "shift_body"
    /\ LET next == loc[t].next
           ex == ExtractLogs(next.logs, depth)
           confirm == loc[t].case = "confirm"
       IN  IF confirm /\ ex.panicked
           THEN /\ loc' = [loc EXCEPT ![t].panicked = TRUE]
                /\ pc' = [pc EXCEPT ![t] = "shift_unlock"]
                /\ UNCHANGED <<blocks, processed, sent>>
           ELSE /\ processed' = IF confirm THEN Append(processed, next)
                                ELSE processed
                /\ sent' = IF confirm /\ HasExtracted(ex)
                           THEN Append(sent, Event(next.index + depth, ex.ctxs,
                                                   ex.rtxs, ex.fins))
                           ELSE sent
                /\ IF blocks = <<>>
                   THEN /\ loc' = [loc EXCEPT ![t].panicked = TRUE]
                        /\ pc' = [pc EXCEPT ![t] = "shift_unlock"]
                        /\ UNCHANGED blocks
                   ELSE /\ blocks' = DropFront(blocks)
                        /\ pc' = [pc EXCEPT ![t] = "shift_loop"]
                        /\ UNCHANGED loc
    /\ UNCHANGED <<lock, added, ncalls, depth, currentEvent, last, scen,
                   toolVars>>

\* Lines 51-55 of add.
AddLink(t) ==
    /\ pc[t] = "add_link"
    /\ blocks' = AddResult(blocks, loc[t].height, loc[t].hash,
                           LogsOf(loc[t].hash))
    /\ added' = Append(added, Entry(loc[t].height, loc[t].hash,
                                    LogsOf(loc[t].hash)))
    /\ pc' = [pc EXCEPT ![t] = "add_unlock"]
    /\ UNCHANGED <<lock, loc, processed, ncalls, depth, currentEvent, sent,
                   last, scen, toolVars>>

\* The deferred t.lock.Unlock(); insert goes on to add unless shift
\* panicked.
Unlock(t) ==
    /\ pc[t] \in {"shift_unlock", "add_unlock"}
    /\ lock' = "free"
    /\ IF pc[t] = "shift_unlock" /\ loc[t].op = "insert" /\ ~loc[t].panicked
       THEN /\ pc' = [pc EXCEPT ![t] = "add_lock"]
            /\ loc' = [loc EXCEPT ![t].next = NoEntry, ![t].case = "none"]
       ELSE /\ pc' = [pc EXCEPT ![t] = "idle"]
            /\ loc' = [loc EXCEPT ![t] = [NoLocals EXCEPT
                                            !.panicked = loc[t].panicked]]
    /\ UNCHANGED <<processed, added, ncalls, ledgerVars, scen, toolVars>>

ConcNext ==
    \E t \in Threads :
       \/ \E op \in {"insert", "shift", "add"}, height \in Heights :
             Call(t, op, height, "hA")
       \/ Lock(t)
       \/ \E answer \in Hashes \cup {NoHash} : ShiftRead(t, answer)
       \/ ShiftBody(t)
       \/ AddLink(t)
       \/ Unlock(t)

SpecConc == Init /\ [][ConcNext]_vars

\* The thread is between t.lock.Lock() and the deferred Unlock.
InCriticalSection(t) ==
    pc[t] \in {"shift_loop", "shift_body", "shift_unlock", "add_link",
               "add_unlock"}

RECURSIVE Count(_, _)
Count(seq, e) ==
    IF seq = <<>> THEN 0
    ELSE (IF Head(seq) = e THEN 1 ELSE 0) + Count(Tail(seq), e)

\* C6: under any interleaving of insert, shift and add calls, a thread is
\* inside shift's loop or add's link only while it holds the lock, so no
\* two threads are there together; the entry whose depth was checked is
\* still the front of the ring when its logs are processed and it is
\* dropped; and no entry's logs are processed more often than the entry was
\* added.
ConfirmedOnceUnderLock ==
    /\ \A t \in Threads : InCriticalSection(t) => lock = t
    /\ \A t, u \in Threads :
          (t # u /\ InCriticalSection(t)) => ~InCriticalSection(u)
    /\ \A t \in Threads :
          pc[t] = "shift_body" => (blocks # <<>> /\ Head(blocks) = loc[t].next)
    /\ \A i \in 1..Len(processed) :
          Count(processed, processed[i]) <= Count(added, processed[i])
    /\ \A t \in Threads : ~loc[t].panicked

\* One thread is about to process the logs of a confirmed entry while the
\* other thread, in shift for a height that confirms the same entry, waits
\* for the lock.
ConfirmUnderContentionReached ==
    \E t, u \in Threads :
       /\ t # u
       /\ pc[t] = "shift_body" /\ loc[t].case = "confirm"
       /\ pc[u] = "shift_lock"
       /\ loc[u].height >= loc[t].next.index + depth

(***************************************************************************)
(* shift on a ledger of one entry, with every kind of log list and every   *)
(* kind of currentEvent.                                                   *)
(***************************************************************************)
\* A maker log of 6 words of data whose count word reads as n: n bytes of
\* payload are asked for and none is there.  A word of 2^63 or more reads
\* as a negative int64.
CountBeyondData(n) ==
    Log("bridge", <<MakerTopic, "X", "from">>, HashLength * 6, n, "match")

\* Log lists of an entry: what shift decodes, what it passes over (another
\* contract's log, a log whose transaction is unknown or in another block),
\* mixtures, and maker logs whose count does not fit their data.
EntryLogs ==
    NonBridgeLogs
    \cup {<<CountBeyondData(1), TakerLog("Y")>>, <<CountBeyondData(-1)>>}
    \cup {<<m>> : m \in QualifyingMakers}
    \cup {<<TakerLog("Y")>>, <<FinishLog("X")>>,
          <<MakerLog("X"), TakerLog("Y"), FinishLog("X")>>,
          <<Log("bridge", <<MakerTopic, "X", "from">>, HashLength * 6, 0, "nil")>>,
          <<Log("bridge", <<TakerTopic, "X", "to">>, HashLength * 4, 0,
                "otherHash"), MakerLog("Y")>>}

\* An event under construction that already holds a maker of block n.
Pending(n) ==
    Event(n, <<[ctxId |-> "Y", at |-> n, from |-> Low20("from"),
                to |-> Low20("w0"), payloadLen |-> 0]>>, <<>>, <<>>)

\* The currentEvent a caller may pass: nil, or the event of any block.
AnyEventArgs == {NilEvent} \cup {Pending(n) : n \in 0..MaxHeight + MaxDepth}

LogsAdd(index, logs) == blocks = <<>> /\ Add(index, "hA", logs)

LogsNext ==
    \/ \E index \in Heights, logs \in EntryLogs :
          LogsAdd(index, logs) /\ UNCHANGED notLedgerVars
    \/ \E height \in Heights, ce \in AnyEventArgs, hdr \in ChainViews(blocks) :
          Shift(height, ce, hdr) /\ UNCHANGED notLedgerVars
    \/ Return /\ UNCHANGED notLedgerVars

SpecLogs == Init /\ [][LogsNext]_vars

\* The entry an only step of the last shift confirmed, and its confirmation
\* number.
ConfirmStep == ShiftCall /\ Len(last.trace) = 1 /\ last.trace[1].outcome = "confirm"
ConfirmNumber == last.trace[1].entry.index + depth
Extracted == last.trace[1].ex
SomeExtracted ==
    Len(Extracted.ctxs) + Len(Extracted.rtxs) + Len(Extracted.fins) > 0

\* C8: when shift confirms an entry and the caller's currentEvent is not nil
\* and has Number = index + depth, the entry's makers, takers and finishes
\* are appended to currentEvent and nothing is sent; otherwise currentEvent
\* is left as it was and one event numbered index + depth with what was
\* extracted is sent if and only if something was extracted.
MergeOrSend ==
    ConfirmStep =>
       IF ~last.ce.isNil /\ last.ce.Number = ConfirmNumber
       THEN /\ currentEvent =
                  Event(ConfirmNumber, last.ce.Makers \o Extracted.ctxs,
                        last.ce.Takers \o Extracted.rtxs,
                        last.ce.Finishes \o Extracted.fins)
            /\ sent = <<>>
       ELSE /\ currentEvent = last.ce
            /\ sent = IF SomeExtracted
                      THEN <<Event(ConfirmNumber, Extracted.ctxs, Extracted.rtxs,
                                   Extracted.fins)>>
                      ELSE <<>>

\* An entry with logs to extract was merged into the caller's event.
MergeReached ==
    /\ ConfirmStep
    /\ ~last.ce.isNil
    /\ last.ce.Number = ConfirmNumber
    /\ SomeExtracted
    /\ Len(currentEvent.Makers) > Len(last.ce.Makers)

\* The only log of the confirmed entry, when it is a maker log of the
\* bridge contract with at least 3 topics whose transaction is found in the
\* log's block.
OnlyLog == last.trace[1].entry.logs[1]
OneMakerLogConfirmed ==
    /\ ShiftCall /\ Len(last.trace) = 1
    /\ LogsProcessed(last.trace[1])
    /\ Len(last.trace[1].entry.logs) = 1
    /\ OnlyLog.address = "bridge"
    /\ OnlyLog.txLookup = "match"
    /\ Len(OnlyLog.topics) >= 3
    /\ OnlyLog.topics[1] = MakerTopic

\* C13: such a log is decoded into a CrossTransaction exactly when its data
\* is at least 6 words long: with count bytes of payload inside the data
\* it yields one maker with ctxId = topics[1], from = the low 20 bytes of
\* topics[2], to = the low 20 bytes of data word 0 and a payload of count
\* bytes (none at exactly 6 words with count 0); shorter data, even by one
\* byte, yields no maker, taker or finish and no panic.
MakerDecodedFromSixWords ==
    OneMakerLogConfirmed =>
       /\ (OnlyLog.dataLen >= HashLength * 6 /\ OnlyLog.count >= 0
              /\ HashLength * 6 + OnlyLog.count <= OnlyLog.dataLen)
             => /\ ~last.panicked
                /\ Len(Extracted.ctxs) = 1
                /\ Extracted.ctxs[1].ctxId = OnlyLog.topics[2]
                /\ Extracted.ctxs[1].from.low20 = OnlyLog.topics[3]
                /\ Extracted.ctxs[1].to.low20 = OnlyLog.word0
                /\ Extracted.ctxs[1].payloadLen = OnlyLog.count
                /\ Extracted.rtxs = <<>> /\ Extracted.fins = <<>>
       /\ OnlyLog.dataLen < HashLength * 6
             => /\ ~last.panicked
                /\ Extracted = NoExtract
                /\ sent = <<>>
                /\ currentEvent = last.ce

\* A maker log of exactly 6 words with count 0 was decoded.
BoundaryMakerDecoded ==
    /\ OneMakerLogConfirmed
    /\ OnlyLog.dataLen = HashLength * 6 /\ OnlyLog.count = 0
    /\ Len(Extracted.ctxs) = 1
    /\ Extracted.ctxs[1].payloadLen = 0

\* C12: no content of a log aborts shift: a shift call does not panic, and
\* an entry whose logs it started to process has left the ledger.
LogContentNeverAborts ==
    ShiftCall
       => /\ ~last.panicked
          /\ \A i \in Steps : LogsProcessed(last.trace[i]) => ~LeftByShift(i)

\* Every finish modifier shift hands out for a finish log of block H has
\* AtBlockNumber = H + depth and leaves shift at a height of at least
\* H + depth.
FinishModifierAtDepth ==
    ConfirmStep =>
       \A i \in 1..Len(Extracted.fins) :
          /\ Extracted.fins[i].at = last.trace[1].entry.index + depth
          /\ last.height >= last.trace[1].entry.index + depth


(***************************************************************************)
(* The signTx tool: handleTx, MakeEvent, TakerEvent (archive/signTx/       *)
(* main.go, lines 168-330).  A run of handleTx is one step per log of the  *)
(* receipt.  What the RPC endpoints and the libraries answer is chosen by  *)
(* the environment at each call.                                           *)
(***************************************************************************)
MaxLogs == 2

Effect(kind, ctx) == [kind |-> kind, ctx |-> ctx]

\* What a call does: the effects it had, and whether it panicked.
Ran(effs) == [effects |-> effs, panicked |-> FALSE]
Panicked(effs) == [effects |-> effs, panicked |-> TRUE]

\* Answers of the environment to MakeEvent: whether crypto.Sign and
\* WithSignature succeed (sign), what the rlp and cross-transaction
\* libraries do with the nil transaction left by a failed SignCtx (nilTx:
\* the encoder panics, returns an error, or encodes it, and in the last case
\* NewCrossTransactionWithSignatures panics or builds a record), and whether
\* rlp.DecodeBytes, AddSignature and SendCrossTxMain/Sub succeed.
MakeEnvs ==
    [sign : BOOLEAN,
     nilTx : {"panic", "error", "encodes", "encodesAndBuilds"},
     decode : BOOLEAN, addSig : BOOLEAN, send : BOOLEAN]

\* Answers of the environment to TakerEvent: NonceAt, createTransaction
\* (SuggestGasPrice and ConstructData), newSignedTransaction,
\* SendTransaction.
TakerEnvs ==
    [nonce : BOOLEAN, create : BOOLEAN, signTx : BOOLEAN, sendTx : BOOLEAN]

\* Lines 264-298 of MakeEvent, after data was encoded.
\* Lines 282-292: the record goes to the chain's endpoint.
SendRecord(onMainChain, ctxId, env, done) ==
    IF ~env.send
    THEN Panicked(Append(done, Effect("SendCrossTx failed", ctxId)))
    ELSE Ran(Append(done, Effect(IF onMainChain THEN "SendCrossTxMain"
                                                ELSE "SendCrossTxSub", ctxId)))

\* Mutant of lines 272-274: the error is passed over and MakeEvent goes on.
OnAddSignatureErrorGoOn(failed, rest) ==
    [effects |-> failed \o rest.effects, panicked |-> rest.panicked]

\* Lines 272-274: panic(err) when AddSignature fails; rest is what MakeEvent
\* would do next.
OnAddSignatureError(failed, rest) == Panicked(failed)

MakeEventSend(onMainChain, ctxId, crossTxBytes, env, done) ==
    IF crossTxBytes
    THEN IF ~env.sign /\ env.nilTx # "encodesAndBuilds"
         THEN Panicked(done)
         ELSE IF ~env.decode
         THEN Panicked(done \o <<Effect("build", ctxId),
                                 Effect("DecodeBytes failed", ctxId)>>)
         ELSE IF ~env.addSig
         THEN OnAddSignatureError(
                 done \o <<Effect("build", ctxId),
                           Effect("AddSignature failed", ctxId)>>,
                 SendRecord(onMainChain, ctxId, env, <<>>))
         ELSE SendRecord(onMainChain, ctxId, env,
                         Append(done, Effect("build", ctxId)))
    ELSE Ran(Append(done, Effect("tx_rlp", ctxId)))

\* MakeEvent(chain, event, crossTxBytes), lines 238-300.
MakeEvent(onMainChain, event, crossTxBytes, env) ==
    IF Len(event.topics) < 3
    THEN Panicked(<<>>)
    ELSE IF ~SliceOk(event, HashLength * 4, HashLength * 5)
    THEN Panicked(<<>>)
    ELSE IF ~SliceOk(event, HashLength * 5, HashLength * 5 + event.count)
    THEN Panicked(<<>>)
    ELSE LET ctxId == event.topics[2] IN
         IF env.sign
         THEN MakeEventSend(onMainChain, ctxId, crossTxBytes, env,
                            <<Effect("sign", ctxId), Effect("encode", ctxId)>>)
         ELSE IF env.nilTx \in {"panic", "error"}
         THEN Panicked(<<Effect("SignCtx failed", ctxId),
                         Effect("encode nil", ctxId)>>)
         ELSE MakeEventSend(onMainChain, ctxId, crossTxBytes, env,
                            <<Effect("SignCtx failed", ctxId),
                              Effect("encode nil", ctxId)>>)

\* Line 217: the two Uint64() values are equal.  big.Int.Uint64() gives
\* the low 64 bits of DestinationId; the chain ids are uint64 (lines 150,
\* 159).
DestinationMatches(onMainChain, event) ==
    event.dest = (IF onMainChain THEN "sub" ELSE "main")

\* Mutant of lines 229-232: a failed submission ends the run.
SendTransactionFailedFatal(done) == Panicked(done)

\* Lines 229-232: a failed submission is logged and TakerEvent returns.
SendTransactionFailed(done) == Ran(done)

\* TakerEvent(chain, ctx, event), lines 191-235.
TakerEvent(onMainChain, event, env) ==
    LET ctxId == event.topics[2] IN
    IF ~env.nonce
    THEN Panicked(<<>>)
    ELSE IF ~DestinationMatches(onMainChain, event)
    THEN Ran(<<>>)
    ELSE IF ~env.create
    THEN Panicked(<<Effect("CreateTransaction failed", ctxId)>>)
    ELSE IF ~env.signTx
    THEN Panicked(<<>>)
    ELSE IF ~env.sendTx
    THEN SendTransactionFailed(<<Effect("newSignedTransaction", ctxId),
                                 Effect("SendTransaction failed", ctxId)>>)
    ELSE Ran(<<Effect("newSignedTransaction", ctxId),
               Effect("SendTransaction", ctxId)>>)

\* Line 177: the log takes the maker branch.
IsMakerBranch(v) == Len(v.topics) > 0 /\ v.topics[1] = MakerTopic

\* Line 183: the log takes the taker branch.
IsTakerBranch(v) ==
    /\ Len(v.topics) >= 3
    /\ v.topics[1] = TakerTopic
    /\ v.dataLen >= HashLength * 4

\* The body of handleTx's loop for one log, lines 176-187.
HandleLog(onMainChain, v, crossTxBytes, me, te) ==
    LET made == IF ~IsMakerBranch(v) THEN Ran(<<>>)
                ELSE IF Len(v.topics) < 2 THEN Panicked(<<>>)
                ELSE MakeEvent(onMainChain, v, crossTxBytes, me)
    IN  IF made.panicked \/ ~IsTakerBranch(v) THEN made
        ELSE LET took == TakerEvent(onMainChain, v, te)
             IN  [effects |-> made.effects \o took.effects,
                  panicked |-> took.panicked]

(***************************************************************************)
(* The signTx tool: parseCrossChainEvents and parseContractLogs (lines     *)
(* 344-423).  A map keyed by the cross-transaction id is a set of          *)
(* [ctx, log] records with at most one record per id.                      *)
(***************************************************************************)
OtherChain(c) == IF c = "main" THEN "sub" ELSE "main"

Keys(m) == {e.ctx : e \in m}

\* m[k] = v
Put(m, k, v) == {e \in m : e.ctx # k} \cup {[ctx |-> k, log |-> v]}

\* Mutant of the delete loops: nothing is deleted.
DeleteNone(m, ks) == m

\* for _, finish := range ks { delete(m, finish) }
Delete(m, ks) == {e \in m : e.ctx \notin ks}

Range(seq) == {seq[i] : i \in 1..Len(seq)}

\* The state of one scan: the chain's two maps and the finishes so far.
Scan(makers, takers, fins) ==
    [MakerEvents |-> makers, TakerEvents |-> takers, finishes |-> fins]

\* The body of the loop over receipt.Logs for one log, lines 399-414.
ParseLog(s, v) ==
    IF Len(v.topics) = 0 THEN s
    ELSE IF /\ v.topics[1] = MakerTopic
            /\ Len(v.topics) >= 3
            /\ v.dataLen >= HashLength * 5
    THEN Scan(Put(s.MakerEvents, v.topics[2], v), s.TakerEvents, s.finishes)
    ELSE IF /\ Len(v.topics) >= 3
            /\ v.topics[1] = TakerTopic
            /\ v.dataLen >= HashLength * 4
    THEN Scan(s.MakerEvents, Put(s.TakerEvents, v.topics[2], v), s.finishes)
    ELSE IF Len(v.topics) >= 3 /\ v.topics[1] = MakerFinishTopic
    THEN Scan(s.MakerEvents, s.TakerEvents, Append(s.finishes, v.topics[2]))
    ELSE s

RECURSIVE ParseLogs(_, _)
ParseLogs(s, logs) ==
    IF logs = <<>> THEN s ELSE ParseLogs(ParseLog(s, Head(logs)), Tail(logs))

\* Mutant of lines 398-418: the delete loop runs before the logs are read.
ParseReceiptDeleteFirst(s, logs) ==
    ParseLogs(Scan(Delete(s.MakerEvents, Range(s.finishes)), s.TakerEvents,
                   s.finishes),
              logs)

\* The logs of one contract transaction and the delete loop after them,
\* lines 398-418.
ParseReceipt(s, logs) ==
    LET t == ParseLogs(s, logs)
    IN  Scan(Delete(t.MakerEvents, Range(t.finishes)), t.TakerEvents,
             t.finishes)

(***************************************************************************)
(* One run of the tool, from main() (lines 75-95).                         *)
(***************************************************************************)
\* Logs a receipt handed to handleTx may hold.
ShortDataMaker(x) == Log("bridge", <<MakerTopic, x, "from">>, HashLength * 4, 0, "match")
OneTopicMaker == Log("bridge", <<MakerTopic>>, HashLength * 6, 0, "match")
TwoTopicMaker(x) == Log("bridge", <<MakerTopic, x>>, HashLength * 6, 0, "match")
LongCountMaker(x) ==
    Log("bridge", <<MakerTopic, x, "from">>, HashLength * 5, HashLength, "match")
TakerTo(x, dest) == [TakerLog(x) EXCEPT !.dest = dest]
\* A taker log whose first data word is a chain id plus a multiple of 2^64.
TakerToHigh(x, dest) == [TakerLog(x) EXCEPT !.dest = dest, !.destHigh = TRUE]

ReceiptLogs ==
    {MakerLog("X"), ShortDataMaker("X"), OneTopicMaker, TwoTopicMaker("X"),
     LongCountMaker("X"), TakerTo("Y", "main"), TakerTo("Y", "sub"),
     TakerToHigh("X", "main"), TakerToHigh("X", "sub"),
     Log("bridge", <<OtherTopic>>, 0, 0, "match"), Log("bridge", <<>>, 0, 0, "match")}

RECURSIVE SeqsUpTo(_, _)
SeqsUpTo(S, n) ==
    IF n = 0 THEN {<<>>}
    ELSE LET shorter == SeqsUpTo(S, n - 1)
         IN  shorter \cup {Append(q, e) : q \in shorter, e \in S}

\* Blocks a scan may be handed: each transaction is sent to the bridge
\* contract or not, has the logs of its receipt, and the answer of
\* TransactionReceipt: "ok", "retry" (an error, then the receipt) or "fail"
\* (two errors).
Tx(toContract, logs, answer) ==
    [toContract |-> toContract, logs |-> logs, answer |-> answer]

ScannedBlocks ==
    {<<>>,
     <<Tx(TRUE, <<MakerLog("X")>>, "ok")>>,
     <<Tx(TRUE, <<TakerLog("X")>>, "ok")>>,
     <<Tx(TRUE, <<FinishLog("X")>>, "ok")>>,
     <<Tx(TRUE, <<FinishLog("X"), MakerLog("X")>>, "ok")>>,
     <<Tx(FALSE, <<MakerLog("X")>>, "ok"),
       Tx(TRUE, <<ShortDataMaker("X"), MakerLog("Y")>>, "retry")>>,
     <<Tx(TRUE, <<MakerLog("Y")>>, "fail")>>}

\* The highest head of a scanned chain.
MaxHead == 1

ToolInit ==
    /\ depth = 0
    /\ blocks = <<>>
    /\ currentEvent = NilEvent
    /\ sent = <<>>
    /\ last = NoCall
    /\ scen = NoScen
    /\ ConcIdle
    /\ effects = <<>>
    /\ idx = 0
    /\ \/ /\ mode = "handleTx"
          /\ tpc = "start"
          /\ onMain \in BOOLEAN
          /\ hasData \in BOOLEAN
          /\ receipt \in SeqsUpTo(ReceiptLogs, MaxLogs)
          /\ ParseOff
       \/ /\ mode = "parse"
          /\ tpc = "block"
          /\ onMain = TRUE
          /\ hasData = FALSE
          /\ receipt = <<>>
          /\ scanning = "main"
          /\ blk = 0
          /\ head \in [Chains -> 0..MaxHead]
          /\ MakerEvents = NoMaps
          /\ TakerEvents = NoMaps
          /\ finishes = <<>>
          /\ mainFinish = <<>>
          /\ subFinish = <<>>
          /\ seen = {}
          /\ evicted = {}
          /\ requests = <<>>

\* handleTx, lines 169-174: the receipt is fetched.
HandleTxReceipt(ok) ==
    /\ mode = "handleTx"
    /\ tpc = "start"
    /\ IF ok THEN tpc' = "logs" /\ idx' = 1
             ELSE tpc' = "panic" /\ idx' = idx
    /\ UNCHANGED <<mode, onMain, hasData, receipt, effects, parseVars>>

AllOk == [sign |-> TRUE, nilTx |-> "panic", decode |-> TRUE, addSig |-> TRUE,
          send |-> TRUE]

\* handleTx, lines 175-188: one turn of the loop over receipt.Logs.
HandleTxLog ==
    /\ mode = "handleTx"
    /\ tpc = "logs"
    /\ idx <= Len(receipt)
    /\ LET v == receipt[idx] IN
       \E me \in IF IsMakerBranch(v) THEN MakeEnvs ELSE {AllOk},
          te \in IF IsTakerBranch(v) THEN TakerEnvs
                 ELSE {[nonce |-> TRUE, create |-> TRUE, signTx |-> TRUE,
                        sendTx |-> TRUE]} :
          LET r == HandleLog(onMain, v, hasData, me, te) IN
             /\ effects' = effects \o r.effects
             /\ IF r.panicked THEN tpc' = "panic" /\ idx' = idx
                              ELSE tpc' = tpc /\ idx' = idx + 1
    /\ UNCHANGED <<mode, onMain, hasData, receipt, parseVars>>

\* handleTx, line 189: the loop is over.
HandleTxReturn ==
    /\ mode = "handleTx"
    /\ tpc = "logs"
    /\ idx > Len(receipt)
    /\ tpc' = "done"
    /\ UNCHANGED <<mode, onMain, hasData, receipt, idx, effects, parseVars>>

\* What one call of TransactionReceipt answers: an error or the receipt.
NoReceipt == [err |-> TRUE, logs |-> <<>>]
Receipt(logs) == [err |-> FALSE, logs |-> logs]

\* Mutant of lines 387-396: the first error is fatal, there is no retry.
FetchReceiptNoRetry(answer, logs) ==
    IF answer = "ok" THEN <<Receipt(logs)>> ELSE <<NoReceipt>>

\* Lines 387-396: the answers to the calls of TransactionReceipt made for
\* one transaction; the last one is what the scan is left with.
FetchReceipt(answer, logs) ==
    IF answer = "ok" THEN <<Receipt(logs)>>
    ELSE IF answer = "retry" THEN <<NoReceipt, Receipt(logs)>>
    ELSE <<NoReceipt, NoReceipt>>

\* The loop over block.Transactions(), lines 384-420.  w holds the scan,
\* the keys deleted so far (gone), the calls of TransactionReceipt so far
\* with the place of their transaction in the block, and whether the scan
\* panicked.
RECURSIVE ParseTxs(_, _, _, _)
ParseTxs(w, txs, n, number) ==
    IF txs = <<>> \/ w.panicked THEN w
    ELSE LET tx == Head(txs)
             got == FetchReceipt(tx.answer, InBlock(tx.logs, number, "hA"))
             calls == [i \in 1..Len(got) |->
                          [tx |-> n, err |-> got[i].err, logs |-> got[i].logs]]
             logs == got[Len(got)].logs
             t == ParseLogs(w.scan, logs)
             u == ParseReceipt(w.scan, logs)
         IN  IF ~tx.toContract THEN ParseTxs(w, Tail(txs), n + 1, number)
             ELSE IF got[Len(got)].err
             THEN [w EXCEPT !.panicked = TRUE, !.requests = @ \o calls]
             ELSE ParseTxs([scan |-> u,
                            gone |-> w.gone \cup
                                     (Keys(t.MakerEvents) \ Keys(u.MakerEvents)),
                            requests |-> w.requests \o calls,
                            panicked |-> FALSE],
                           Tail(txs), n + 1, number)

\* parseContractLogs, lines 375-421: one turn of the loop over the blocks.
\* ok is whether BlockByNumber(i) answers; block is what it answers.
ParseBlock(ok, block) ==
    /\ mode = "parse"
    /\ tpc = "block"
    /\ blk < head[scanning] + 1
    /\ LET s == Scan(MakerEvents[scanning], TakerEvents[scanning], finishes)
           w == ParseTxs([scan |-> s, gone |-> {}, requests |-> <<>>,
                          panicked |-> FALSE],
                         block, 1, blk)
           new == {w.scan.finishes[i]
                     : i \in Len(finishes) + 1..Len(w.scan.finishes)}
       IN  /\ tpc' = IF ~ok \/ w.panicked THEN "panic" ELSE tpc
           /\ blk' = IF ~ok \/ w.panicked THEN blk ELSE blk + 1
           /\ IF ~ok
              THEN /\ requests' = <<>>
                   /\ UNCHANGED <<MakerEvents, TakerEvents, finishes, seen,
                                   evicted>>
              ELSE /\ requests' = w.requests
                   /\ MakerEvents' =
                         [MakerEvents EXCEPT ![scanning] = w.scan.MakerEvents]
                   /\ TakerEvents' =
                         [TakerEvents EXCEPT ![scanning] = w.scan.TakerEvents]
                   /\ finishes' = w.scan.finishes
                   /\ seen' = seen \cup
                         {[chain |-> scanning, ctx |-> x, at |-> blk] : x \in new}
                   /\ evicted' = evicted \cup
                         {[chain |-> scanning, ctx |-> x, map |-> "maker"]
                            : x \in w.gone}
    /\ UNCHANGED <<scanning, head, mainFinish, subFinish, mode, handleVars>>

\* parseContractLogs returns (line 422) to parseCrossChainEvents (lines
\* 345-346), which scans the sub chain after the main chain.
ParseReturn ==
    /\ mode = "parse"
    /\ tpc = "block"
    /\ blk >= head[scanning] + 1
    /\ IF scanning = "main"
       THEN /\ mainFinish' = finishes
            /\ scanning' = "sub"
            /\ tpc' = tpc
            /\ UNCHANGED subFinish
       ELSE /\ subFinish' = finishes
            /\ tpc' = "cross"
            /\ UNCHANGED <<mainFinish, scanning>>
    /\ blk' = 0
    /\ finishes' = <<>>
    /\ UNCHANGED <<head, MakerEvents, TakerEvents, seen, evicted, requests,
                   mode, handleVars>>

\* parseCrossChainEvents, lines 348-370: the finishes of each chain are
\* deleted from the other chain's TakerEvents, and the maps are printed.
CrossDelete ==
    /\ mode = "parse"
    /\ tpc = "cross"
    /\ TakerEvents' =
          [c \in Chains |->
              Delete(TakerEvents[c],
                     Range(IF c = "sub" THEN mainFinish ELSE subFinish))]
    /\ evicted' = evicted \cup
          UNION {{[chain |-> c, ctx |-> x, map |-> "taker"]
                    : x \in Keys(TakerEvents[c]) \ Keys(TakerEvents'[c])}
                 : c \in Chains}
    /\ tpc' = "done"
    /\ UNCHANGED <<scanning, blk, head, MakerEvents, finishes, mainFinish,
                   subFinish, seen, requests, mode, handleVars>>

notToolVars == <<ledgerVars, scen, concVars>>

ToolNext ==
    \/ \E ok \in BOOLEAN : HandleTxReceipt(ok) /\ UNCHANGED notToolVars
    \/ HandleTxLog /\ UNCHANGED notToolVars
    \/ HandleTxReturn /\ UNCHANGED notToolVars
    \/ \E ok \in BOOLEAN, block \in ScannedBlocks :
          ParseBlock(ok, block) /\ UNCHANGED notToolVars
    \/ ParseReturn /\ UNCHANGED notToolVars
    \/ CrossDelete /\ UNCHANGED notToolVars

SpecTool == ToolInit /\ [][ToolNext]_vars

\* The number of steps up to step i of the last call that sent an event.
SentUpTo(i) == Cardinality({j \in 1..i : last.trace[j].emitted})

\* C18: the k-th event a shift sends is the one of the k-th entry it
\* confirmed with something to send, and its Number is the number of that
\* entry's header, which is the entry's index, plus depth, whatever the
\* height of the shift.
SentNumberIsIndexPlusDepth ==
    \A k \in 1..Len(sent) :
       \E i \in Steps :
          LET s == last.trace[i] IN
             /\ s.emitted /\ SentUpTo(i) = k
             /\ sent[k].Number = s.header.Number + depth
             /\ sent[k].Number = s.entry.index + depth

\* A shift sent the event of an entry it confirmed late: its height is
\* above the entry's index plus depth.
SentLateReached ==
    /\ ShiftCall
    /\ sent # <<>>
    /\ \E i \in Steps :
          /\ last.trace[i].emitted
          /\ last.height > last.trace[i].entry.index + depth
          /\ sent[SentUpTo(i)].Number < last.height

\* The entry has a canonical header with its own hash at its height and is
\* not old enough for the height of the last call.
TooFresh(e) == Canonical(e) /\ e.index + depth > last.height

\* C20: a walk that comes to a too fresh entry at the front stops there and
\* leaves it and everything behind it as they were; every walk visits the
\* entries from the front in order and leaves a suffix of the ledger; add
\* (on its own or in insert) puts the new block behind all that is left.
FreshFrontKeptInOrder ==
    /\ PostIsSuffix
    /\ \A i \in Steps :
          TooFresh(last.trace[i].entry)
             => /\ i = Len(last.trace)
                /\ last.post = SubSeq(last.pre, i, Len(last.pre))
                /\ last.post[1] = last.trace[i].entry
    /\ (last.op = "shift" \/ last.panicked) => blocks = last.post
    /\ (last.op \in {"insert", "add"} /\ ~last.panicked)
          => /\ Len(blocks) = Len(last.post) + 1
             /\ SubSeq(blocks, 1, Len(last.post)) = last.post
             /\ blocks[Len(blocks)].index = last.height

\* A shift on its own found the front of a ledger of two entries too fresh
\* and left both.
FreshFrontReached ==
    /\ last.op = "shift"
    /\ Len(last.pre) = 2
    /\ Len(last.trace) = 1
    /\ TooFresh(last.trace[1].entry)
    /\ blocks = last.pre

(***************************************************************************)
(* Properties of the tool, checked under SpecTool.                         *)
(***************************************************************************)
\* A maker log with fewer than three topics, or with data shorter than the
\* five words MakeEvent and parseContractLogs read.
ShortMaker(v) ==
    /\ Len(v.topics) > 0
    /\ v.topics[1] = MakerTopic
    /\ Len(v.topics) < 3 \/ v.dataLen < HashLength * 5

\* C9: handleTx passes over a maker log that has fewer than three topics or
\* too short data: the run does not end at such a log.
ShortMakerLogIgnored ==
    mode = "handleTx" /\ tpc = "panic" /\ idx \in 1..Len(receipt)
       => ~ShortMaker(receipt[idx])

\* C10: once SignCtx has failed MakeEvent does nothing more (nothing is
\* encoded, printed, built or sent) and the run is over.
SignFailureIsFatal ==
    \A i \in 1..Len(effects) :
       effects[i].kind = "SignCtx failed" => i = Len(effects) /\ tpc = "panic"

\* The chain whose finish log empties the map the key was deleted from.
Origin(e) == IF e.map = "maker" THEN e.chain ELSE OtherChain(e.chain)

TakersOf(x) ==
    {j \in 1..Len(receipt) : IsTakerBranch(receipt[j]) /\ receipt[j].topics[2] = x}

\* The first data word of the log, as a 256-bit integer, is the id of the
\* chain opposite to the one handleTx runs on.
WordIsOppositeChainId(v) ==
    v.dest = (IF onMain THEN "sub" ELSE "main") /\ ~v.destHigh

SettlementKinds ==
    {"newSignedTransaction", "SendTransaction", "SendTransaction failed",
     "CreateTransaction failed"}

\* C11: TakerEvent builds or sends a settlement transaction only for a
\* taker log whose first data word, as a full 256-bit integer, equals the
\* opposite chain's id.
SettlesOnlyForChainId ==
    \A i \in 1..Len(effects) :
       effects[i].kind \in SettlementKinds
          => \E j \in TakersOf(effects[i].ctx) : WordIsOppositeChainId(receipt[j])

\* The effects of the MakeEvent call that effect i belongs to: from the
\* call's signature (or its failure) to effect i.
CallStart(i) ==
    CHOOSE j \in 1..i :
       /\ effects[j].kind \in {"sign", "SignCtx failed"}
       /\ \A k \in j + 1..i : effects[k].kind \notin {"sign", "SignCtx failed"}

Emitting == {"SendCrossTxMain", "SendCrossTxSub", "tx_rlp"}

\* C14: when AddSignature rejects the incoming record MakeEvent ends there:
\* the call has sent no record to either chain and printed none, nothing
\* follows, and the run is over.
MergeRejectedWhole ==
    \A i \in 1..Len(effects) :
       effects[i].kind = "AddSignature failed"
          => /\ i = Len(effects)
             /\ tpc = "panic"
             /\ \A k \in CallStart(i)..i : effects[k].kind \notin Emitting

\* AddSignature has rejected the record given with --data.
MergeRejectedReached ==
    /\ hasData /\ tpc = "panic"
    /\ effects # <<>>
    /\ effects[Len(effects)].kind = "AddSignature failed"

\* What one turn of handleTx's loop adds to the effects.
Added == SubSeq(effects', Len(effects) + 1, Len(effects'))

CountKinds(es, kinds) == Cardinality({i \in 1..Len(es) : es[i].kind \in kinds})

\* C15: one turn of handleTx's loop calls TakerEvent at most once, and the
\* call builds at most one settlement transaction and submits at most once;
\* a failed submission is the last thing the call does, and handleTx goes on
\* to the next log of the receipt.
SubmitsOnceAndGoesOn ==
    [][(mode = "handleTx" /\ tpc = "logs" /\ idx <= Len(receipt))
          => /\ CountKinds(Added, {"newSignedTransaction"}) <= 1
             /\ CountKinds(Added, {"SendTransaction", "SendTransaction failed"}) <= 1
             /\ CountKinds(Added, {"SendTransaction failed"}) = 1
                   => /\ Added[Len(Added)].kind = "SendTransaction failed"
                      /\ tpc' = "logs"
                      /\ idx' = idx + 1]_vars

\* A submission failed at the first log and the second log was handled.
GoesOnAfterFailedSubmission ==
    /\ mode = "handleTx" /\ tpc = "done"
    /\ \E i \in 1..Len(effects) :
          /\ effects[i].kind = "SendTransaction failed"
          /\ i < Len(effects)
          /\ effects[Len(effects)].kind = "SendTransaction"

\* C16: when parseCrossChainEvents has run to its end, every id with a
\* finish log scanned on a chain is in neither that chain's MakerEvents nor
\* the other chain's TakerEvents, wherever its maker and taker logs stood.
FinishedAbsentAfterScan ==
    (mode = "parse" /\ tpc = "done")
       => \A f \in seen :
             /\ f.ctx \notin Keys(MakerEvents[f.chain])
             /\ f.ctx \notin Keys(TakerEvents[OtherChain(f.chain)])

\* The finish log of X stood in the first block of the main chain; a maker
\* log of X scanned after it and a taker log of X on the sub chain are gone.
LateMakerAndTakerEvicted ==
    /\ mode = "parse" /\ tpc = "done"
    /\ [chain |-> "main", ctx |-> "X", at |-> 0] \in seen
    /\ [chain |-> "main", ctx |-> "X", map |-> "maker"] \in evicted
    /\ [chain |-> "sub", ctx |-> "X", map |-> "taker"] \in evicted

\* Request i is the first one made for its transaction.
FirstRequest(i) == i = 1 \/ requests[i - 1].tx # requests[i].tx

\* Request i is the second one made for its transaction, after an error.
Retry(i) ==
    /\ i > 1
    /\ requests[i - 1].tx = requests[i].tx
    /\ requests[i - 1].err
    /\ FirstRequest(i - 1)

\* The ids the map holds for the maker logs of a receipt that were not
\* finished.
StoredMakers(logs) ==
    \A k \in 1..Len(logs) :
       LET v == logs[k] IN
          (/\ Len(v.topics) >= 3 /\ v.topics[1] = MakerTopic
           /\ v.dataLen >= HashLength * 5
           /\ v.topics[2] \notin Range(finishes))
             => v.topics[2] \in Keys(MakerEvents[scanning])

\* C17: in one turn of the scan a receipt that cannot be fetched is asked
\* for once more and no further: every request is a first request or the
\* retry of a failed first one; a failed first request is followed by its
\* retry; a failed retry ends the scan; after a retry that answers, the scan
\* goes on with the receipt it got.
ReceiptRetriedOnce ==
    mode = "parse" =>
       \A i \in 1..Len(requests) :
          /\ FirstRequest(i) \/ Retry(i)
          /\ Cardinality({j \in 1..Len(requests)
                             : requests[j].tx = requests[i].tx}) <= 2
          /\ (FirstRequest(i) /\ requests[i].err)
                => i < Len(requests) /\ Retry(i + 1)
          /\ (Retry(i) /\ requests[i].err)
                => i = Len(requests) /\ tpc = "panic"
          /\ (Retry(i) /\ ~requests[i].err)
                => /\ tpc = "panic" => requests[Len(requests)].err
                   /\ (tpc = "block" /\ blk > 0)
                         => StoredMakers(requests[i].logs)

\* A retry answered with a receipt holding a maker log, and the scan went
\* on to the next block.
RetryAnswered ==
    /\ mode = "parse" /\ tpc = "block" /\ blk > 0
    /\ \E i \in 1..Len(requests) :
          /\ Retry(i) /\ ~requests[i].err
          /\ \E k \in 1..Len(requests[i].logs) :
                requests[i].logs[k].topics[2] \in Keys(MakerEvents[scanning])

\* The steps of one goroutine.
ThreadStep(t) ==
    \/ Lock(t)
    \/ \E answer \in Hashes \cup {NoHash} : ShiftRead(t, answer)
    \/ ShiftBody(t)
    \/ AddLink(t)
    \/ Unlock(t)

\* The ledgers a call may find: entries of any height in any order, among
\* them one whose maker log makes the log loop panic.
WalkEntries ==
    {Entry(i, "hA", LogsOf("hA")) : i \in Heights}
       \cup {Entry(0, "hB", <<CountBeyondData(-1)>>)}

WalkInit ==
    /\ depth \in Depths
    /\ blocks \in SeqsUpTo(WalkEntries, MaxLedger)
    /\ currentEvent = NilEvent
    /\ sent = <<>>
    /\ last = NoCall
    /\ scen = NoScen
    /\ lock = "free"
    /\ pc = [t \in Threads |-> "idle"]
    /\ loc = [t \in Threads |-> NoLocals]
    /\ processed = <<>>
    /\ added = <<>>
    /\ ncalls = MaxCalls - 1
    /\ ToolOff

\* One goroutine makes the call.
WalkNext ==
    \/ \E op \in {"insert", "shift", "add"}, height \in Heights :
          Call("t1", op, height, "hA")
    \/ ThreadStep("t1")

\* One more call on any ledger, under a scheduler that lets the goroutine
\* run and with a chain whose lookups return.
SpecWalkFair == WalkInit /\ [][WalkNext]_vars /\ WF_vars(ThreadStep("t1"))

\* One turn of the loop of shift by thread t either stops the walk and
\* leaves the ledger as it is, or removes exactly one entry (the ledger is
\* empty when it was the last one) and goes back to the loop test.
TurnStopsOrRemovesOne(t) ==
    /\ (pc[t] = "shift_loop" /\ pc'[t] # "shift_loop")
          => /\ blocks' = blocks
             /\ pc'[t] \in {"shift_unlock", "shift_body"}
             /\ blocks = <<>> => pc'[t] = "shift_unlock"
    /\ (pc[t] = "shift_body" /\ pc'[t] # "shift_body")
          => \/ pc'[t] = "shift_unlock" /\ blocks' = blocks
             \/ /\ pc'[t] = "shift_loop"
                /\ Len(blocks') = Len(blocks) - 1
                /\ blocks' = Tail(blocks)

\* C21: every shift comes to its end: each turn of its loop stops the walk
\* or removes exactly one entry, so a thread at the loop test gets to the
\* deferred unlock, and the lock it holds is released.
ShiftTerminates ==
    /\ [][\A t \in Threads : TurnStopsOrRemovesOne(t)]_vars
    /\ \A t \in Threads : (pc[t] = "shift_loop") ~> (pc[t] = "shift_unlock")
    /\ \A t \in Threads : (lock = t) ~> (lock # t)

\* A shift has removed the last entry of the ledger and left its loop.
WalkEmptiedLedger ==
    \E t \in Threads :
       /\ pc[t] = "shift_unlock" /\ lock = t
       /\ loc[t].next # NoEntry
       /\ blocks = <<>>
       /\ ~loc[t].panicked

\* The log loop panicked and the thread is at the deferred unlock.
PanicAtUnlock ==
    \E t \in Threads : pc[t] = "shift_unlock" /\ lock = t /\ loc[t].panicked

(***************************************************************************)
(* TakerEvent when createTransaction fails, checked under SpecTool.        *)
(***************************************************************************)
\* C22 as stated: when createTransaction fails TakerEvent gives the attempt
\* up and returns: the run does not end there in a panic.
CreateFailureAbandoned ==
    \A i \in 1..Len(effects) :
       effects[i].kind = "CreateTransaction failed"
          => ~(i = Len(effects) /\ tpc = "panic")

(***************************************************************************)
(* Which logs of a confirmed entry reach an event, checked under SpecLogs. *)
(***************************************************************************)
\* The log is one of the bridge contract with at least 3 topics, and the
\* chain knows its transaction in the log's own block.
FromBridgeInItsBlock(v) ==
    /\ v.address = "bridge"
    /\ Len(v.topics) >= 3
    /\ v.txLookup = "match"

\* What the last shift handed on for the entry it confirmed: what it
\* appended to the caller's event, or the event it sent.
Delivered ==
    IF ~last.ce.isNil /\ last.ce.Number = ConfirmNumber
    THEN [ctxs |-> SubSeq(currentEvent.Makers, Len(last.ce.Makers) + 1,
                          Len(currentEvent.Makers)),
          rtxs |-> SubSeq(currentEvent.Takers, Len(last.ce.Takers) + 1,
                          Len(currentEvent.Takers)),
          fins |-> SubSeq(currentEvent.Finishes, Len(last.ce.Finishes) + 1,
                          Len(currentEvent.Finishes))]
    ELSE IF sent = <<>> THEN [ctxs |-> <<>>, rtxs |-> <<>>, fins |-> <<>>]
    ELSE [ctxs |-> sent[1].Makers, rtxs |-> sent[1].Takers,
          fins |-> sent[1].Finishes]

\* The ids of the logs of the given topic among the logs.
IdsOf(logs, topic) ==
    {logs[k].topics[2] : k \in {j \in 1..Len(logs) : logs[j].topics[1] = topic}}

\* C23: what a shift hands on for a confirmed entry comes from the entry's
\* logs of the bridge contract with at least 3 topics whose transaction
\* the chain knows in the log's block, and from no other log: it is what
\* the entry would give with all its other logs taken out, and every item
\* carries the id of such a log of its own topic.
OnlyBridgeLogsExtracted ==
    ConfirmStep =>
       LET logs == SelectSeq(last.trace[1].entry.logs, FromBridgeInItsBlock)
           ex == ExtractLogs(logs, depth)
       IN  /\ Delivered.ctxs = ex.ctxs
           /\ Delivered.rtxs = ex.rtxs
           /\ Delivered.fins = ex.fins
           /\ \A k \in 1..Len(Delivered.ctxs) :
                 Delivered.ctxs[k].ctxId \in IdsOf(logs, MakerTopic)
           /\ \A k \in 1..Len(Delivered.rtxs) :
                 Delivered.rtxs[k].ctxId \in IdsOf(logs, TakerTopic)
           /\ \A k \in 1..Len(Delivered.fins) :
                 Delivered.fins[k].ctxId \in IdsOf(logs, MakerFinishTopic)
           /\ logs = <<>> => (sent = <<>> /\ currentEvent = last.ce)

\* A confirmed entry held a taker log whose transaction is in another
\* block and a maker log; the event sent holds the maker alone.
ForeignLogPassedOver ==
    /\ ConfirmStep
    /\ \E k \in 1..Len(last.trace[1].entry.logs) :
          LET v == last.trace[1].entry.logs[k]
          IN  /\ ~FromBridgeInItsBlock(v)
              /\ v.address = "bridge" /\ v.topics[1] = TakerTopic
    /\ sent # <<>>
    /\ Len(sent[1].Makers) = 1
    /\ sent[1].Takers = <<>>

=============================================================================
